---------------------------- MODULE Spec2Model ----------------------------
(* A model of vheinamaki/http-server: the worker pool                      *)
(* (src/server/threadpool.rs) and the per-connection request pipeline      *)
(* (src/lib.rs, src/server/{request,files,response}.rs).                   *)
EXTENDS Integers, Sequences, FiniteSets, TLC

(***************************************************************************)
(* Bounds of the model.                                                    *)
(***************************************************************************)
MaxThreads == 2
MaxJobs == 3

(***************************************************************************)
(* PART I.  The worker pool, src/server/threadpool.rs                      *)
(***************************************************************************)
VARIABLES
  max_threads,  \* ThreadPool::new's argument; workers are 1..max_threads
  queue,        \* the mpsc channel's buffered messages, oldest first
  lock,         \* the worker holding the receiver mutex, 0 when it is free
  wpc,          \* each worker thread's position in its loop
  cur,          \* the job a worker is running, 0 when none
  jobState,     \* each job's progress
  ranBy,        \* the workers that called job j
  runs,         \* how many times job j was called
  started,      \* job ids in the order they were dequeued
  termRecv,     \* how many Terminate messages each worker has consumed
  nextJob,      \* the next job id execute is called with
  dropPc,       \* the position of Drop for ThreadPool
  sent,         \* Terminate messages sent by drop so far
  joined        \* workers joined by drop so far

poolVars == <<max_threads, queue, lock, wpc, cur, jobState, ranBy, runs,
              started, termRecv, nextJob, dropPc, sent, joined>>

VARIABLES
  stream_in,    \* the bytes the client sent on the connection
  hpc,          \* handle_connection's position
  buffer,       \* the read buffer
  request,      \* Request::parse's result
  accepts_gzip, \* lib.rs line 97
  send_body,    \* lib.rs line 115
  fs,           \* the filesystem, a member of FsStates
  stage,        \* which HttpContent is in hand: "primary" or "fallback"
  content,      \* the path resolve_file_path gave, then HttpContent.file_path
  obs,          \* what HttpContent::new and get_bytes returned, per stage
  opened,       \* the canonical node of each file File::open opened
  responses,    \* the calls of Response::send: response and include_body
  wire          \* what each send wrote to the stream

connVars == <<stream_in, hpc, buffer, request, accepts_gzip, send_body, fs,
              stage, content, obs, opened, responses, wire>>

vars == <<poolVars, connVars>>

Jobs == 1..MaxJobs
Workers == 1..max_threads
Terminate == 0      \* Message::Terminate; Message::NewJob(j) is the id j >= 1

\* A worker thread that has ended, by break or by unwinding.
Finished(w) == wpc[w] \in {"exited", "dead"}
LiveWorkers == {w \in Workers : ~Finished(w)}

\* The Receiver lives in an Arc cloned into every worker closure (new's own
\* clone is dropped when new returns): it is dropped with the last worker.
ReceiverAlive == LiveWorkers # {}

PoolInit ==
  /\ max_threads \in 1..MaxThreads
  /\ queue = <<>>
  /\ lock = 0
  /\ wpc = [w \in 1..max_threads |-> "idle"]
  /\ cur = [w \in 1..max_threads |-> 0]
  /\ jobState = [j \in Jobs |-> "new"]
  /\ ranBy = [j \in Jobs |-> {}]
  /\ runs = [j \in Jobs |-> 0]
  /\ started = <<>>
  /\ termRecv = [w \in 1..max_threads |-> 0]
  /\ nextJob = 1
  /\ dropPc = "alive"
  /\ sent = 0
  /\ joined = 0

\* An execute that runs the job on a thread of its own instead of queueing
\* it for a worker.
ExecuteOnNewThread ==
  /\ dropPc = "alive"
  /\ nextJob <= MaxJobs
  /\ nextJob' = nextJob + 1
  /\ jobState' = [jobState EXCEPT ![nextJob] = "running"]
  /\ runs' = [runs EXCEPT ![nextJob] = @ + 1]
  /\ started' = Append(started, nextJob)
  /\ UNCHANGED <<max_threads, queue, lock, wpc, cur, ranBy, termRecv,
                 dropPc, sent, joined>>

\* An execute that puts the job at the head of the queue.
ExecuteAtHead ==
  /\ dropPc = "alive"
  /\ nextJob <= MaxJobs
  /\ nextJob' = nextJob + 1
  /\ IF ReceiverAlive
       THEN /\ queue' = <<nextJob>> \o queue
            /\ jobState' = [jobState EXCEPT ![nextJob] = "queued"]
       ELSE /\ queue' = queue
            /\ jobState' = [jobState EXCEPT ![nextJob] = "rejected"]
  /\ UNCHANGED <<max_threads, lock, wpc, cur, ranBy, runs, started,
                 termRecv, dropPc, sent, joined>>

\* ThreadPool::execute: sender.send(Message::NewJob(job)).unwrap().  send
\* fails only when the receiver is gone; unwrap then panics in the caller
\* and the job is dropped unrun.
Execute ==
  /\ dropPc = "alive"
  /\ nextJob <= MaxJobs
  /\ nextJob' = nextJob + 1
  /\ IF ReceiverAlive
       THEN /\ queue' = Append(queue, nextJob)
            /\ jobState' = [jobState EXCEPT ![nextJob] = "queued"]
       ELSE /\ queue' = queue
            /\ jobState' = [jobState EXCEPT ![nextJob] = "rejected"]
  /\ UNCHANGED <<max_threads, lock, wpc, cur, ranBy, runs, started,
                 termRecv, dropPc, sent, joined>>

\* Worker loop, receiver.lock().unwrap(): take the mutex.  The mutex is
\* never poisoned: no thread panics while holding the guard.
WorkerLock(w) ==
  /\ wpc[w] = "idle"
  /\ lock = 0
  /\ lock' = w
  /\ wpc' = [wpc EXCEPT ![w] = "locked"]
  /\ UNCHANGED <<max_threads, queue, cur, jobState, ranBy, runs, started,
                 termRecv, nextJob, dropPc, sent, joined>>

\* A worker that polls the channel without waiting for job() to return: the
\* message is taken although the previous job is still running.
WorkerRecvWhileRunning(w) ==
  /\ wpc[w] \in {"locked", "run"}
  /\ wpc[w] = "locked" => lock = w
  /\ queue # <<>>
  /\ queue' = Tail(queue)
  /\ lock' = IF lock = w THEN 0 ELSE lock
  /\ IF Head(queue) = Terminate
       THEN /\ wpc' = [wpc EXCEPT ![w] = "exited"]
            /\ termRecv' = [termRecv EXCEPT ![w] = @ + 1]
            /\ UNCHANGED <<cur, jobState, ranBy, runs, started>>
       ELSE /\ wpc' = [wpc EXCEPT ![w] = "run"]
            /\ cur' = [cur EXCEPT ![w] = Head(queue)]
            /\ jobState' = [jobState EXCEPT ![Head(queue)] = "running"]
            /\ ranBy' = [ranBy EXCEPT ![Head(queue)] = @ \cup {w}]
            /\ runs' = [runs EXCEPT ![Head(queue)] = @ + 1]
            /\ started' = Append(started, Head(queue))
            /\ UNCHANGED termRecv
  /\ UNCHANGED <<max_threads, nextJob, dropPc, sent, joined>>

\* A worker whose guard on the receiver lives as long as the job it took.
WorkerRecvKeepsLock(w) ==
  /\ wpc[w] = "locked"
  /\ lock = w
  /\ queue # <<>>
  /\ queue' = Tail(queue)
  /\ IF Head(queue) = Terminate
       THEN /\ wpc' = [wpc EXCEPT ![w] = "exited"]
            /\ termRecv' = [termRecv EXCEPT ![w] = @ + 1]
            /\ lock' = 0
            /\ UNCHANGED <<cur, jobState, ranBy, runs, started>>
       ELSE /\ wpc' = [wpc EXCEPT ![w] = "run"]
            /\ cur' = [cur EXCEPT ![w] = Head(queue)]
            /\ jobState' = [jobState EXCEPT ![Head(queue)] = "running"]
            /\ ranBy' = [ranBy EXCEPT ![Head(queue)] = @ \cup {w}]
            /\ runs' = [runs EXCEPT ![Head(queue)] = @ + 1]
            /\ started' = Append(started, Head(queue))
            /\ UNCHANGED <<termRecv, lock>>
  /\ UNCHANGED <<max_threads, nextJob, dropPc, sent, joined>>

\* Worker loop, .recv().unwrap() and the match: block until a message is
\* buffered, take the oldest, release the guard at the end of the statement,
\* then start the job or break.
WorkerRecv(w) ==
  /\ wpc[w] = "locked"
  /\ lock = w
  /\ queue # <<>>
  /\ queue' = Tail(queue)
  /\ lock' = 0
  /\ IF Head(queue) = Terminate
       THEN /\ wpc' = [wpc EXCEPT ![w] = "exited"]
            /\ termRecv' = [termRecv EXCEPT ![w] = @ + 1]
            /\ UNCHANGED <<cur, jobState, ranBy, runs, started>>
       ELSE /\ wpc' = [wpc EXCEPT ![w] = "run"]
            /\ cur' = [cur EXCEPT ![w] = Head(queue)]
            /\ jobState' = [jobState EXCEPT ![Head(queue)] = "running"]
            /\ ranBy' = [ranBy EXCEPT ![Head(queue)] = @ \cup {w}]
            /\ runs' = [runs EXCEPT ![Head(queue)] = @ + 1]
            /\ started' = Append(started, Head(queue))
            /\ UNCHANGED termRecv
  /\ UNCHANGED <<max_threads, nextJob, dropPc, sent, joined>>

\* job() returns: the worker loops.
JobReturn(w) ==
  /\ wpc[w] = "run"
  /\ wpc' = [wpc EXCEPT ![w] = "idle"]
  /\ cur' = [cur EXCEPT ![w] = 0]
  /\ jobState' = [jobState EXCEPT ![cur[w]] = "done"]
  /\ UNCHANGED <<max_threads, queue, lock, ranBy, runs, started, termRecv,
                 nextJob, dropPc, sent, joined>>

\* job() panics: the closure passed to thread::spawn has no catch_unwind,
\* so the panic unwinds the worker thread, which ends.
JobPanic(w) ==
  /\ wpc[w] = "run"
  /\ wpc' = [wpc EXCEPT ![w] = "dead"]
  /\ cur' = [cur EXCEPT ![w] = 0]
  /\ jobState' = [jobState EXCEPT ![cur[w]] = "panicked"]
  /\ UNCHANGED <<max_threads, queue, lock, ranBy, runs, started, termRecv,
                 nextJob, dropPc, sent, joined>>

\* Drop for ThreadPool begins (the pool goes out of scope).
DropBegin ==
  /\ dropPc = "alive"
  /\ dropPc' = "sending"
  /\ UNCHANGED <<max_threads, queue, lock, wpc, cur, jobState, ranBy, runs,
                 started, termRecv, nextJob, sent, joined>>

\* drop, first loop: sender.send(Message::Terminate).unwrap(), once per
\* element of self.workers.
DropSend ==
  /\ dropPc = "sending"
  /\ IF sent = max_threads
       THEN /\ dropPc' = "joining"
            /\ UNCHANGED <<queue, sent>>
       ELSE IF ReceiverAlive
         THEN /\ queue' = Append(queue, Terminate)
              /\ sent' = sent + 1
              /\ UNCHANGED dropPc
         ELSE /\ dropPc' = "panicked"
              /\ UNCHANGED <<queue, sent>>
  /\ UNCHANGED <<max_threads, lock, wpc, cur, jobState, ranBy, runs, started,
                 termRecv, nextJob, joined>>

\* A drop that returns after sending the Terminates, without joining.
DropWithoutJoin ==
  /\ dropPc = "joining"
  /\ dropPc' = "returned"
  /\ UNCHANGED <<max_threads, queue, lock, wpc, cur, jobState, ranBy, runs,
                 started, termRecv, nextJob, sent, joined>>

\* drop, second loop: thread.join().unwrap() on worker joined + 1.  join
\* blocks until that thread has ended and returns Err when it panicked.
DropJoin ==
  /\ dropPc = "joining"
  /\ IF joined = max_threads
       THEN /\ dropPc' = "returned"
            /\ UNCHANGED joined
       ELSE /\ Finished(joined + 1)
            /\ IF wpc[joined + 1] = "exited"
                 THEN /\ joined' = joined + 1
                      /\ UNCHANGED dropPc
                 ELSE /\ dropPc' = "panicked"
                      /\ UNCHANGED joined
  /\ UNCHANGED <<max_threads, queue, lock, wpc, cur, jobState, ranBy, runs,
                 started, termRecv, nextJob, sent>>

WorkerStep(w) ==
  \/ WorkerLock(w)
  \/ WorkerRecv(w)
  \/ JobReturn(w)
  \/ JobPanic(w)


\* Scheduling: every thread that can take a step eventually takes one (the OS
\* scheduler), a running job eventually ends, and drop, once begun, proceeds.
\* Nothing obliges the caller to call execute or to drop the pool.

(***************************************************************************)
(* PART II.  Strings and paths.                                            *)
(* A string is a sequence of atoms: each of the characters the code looks  *)
(* for (space, CR, LF, colon, comma, slash, backslash, dot, NUL) is an     *)
(* atom of its own, and a run of other characters is one atom (cut in two  *)
(* where the code tests for a prefix of it).                               *)
(***************************************************************************)
SP == " "
CR == "\r"
LF == "\n"
NUL == "^@"
CRLF == <<CR, LF>>
Whitespace == {SP, CR, LF, "\t"}

Last(s) == s[Len(s)]
Front(s) == SubSeq(s, 1, Len(s) - 1)
IsPrefix(p, s) == Len(p) <= Len(s) /\ SubSeq(s, 1, Len(p)) = p

\* The least index i >= from at which pat occurs in s, 0 when there is none.
RECURSIVE FindFrom(_, _, _)
FindFrom(s, pat, from) ==
  IF from + Len(pat) - 1 > Len(s) THEN 0
  ELSE IF SubSeq(s, from, from + Len(pat) - 1) = pat THEN from
  ELSE FindFrom(s, pat, from + 1)

\* str::split(pat): the pieces of s between the occurrences of pat, at least
\* one piece.
RECURSIVE Split(_, _)
Split(s, pat) ==
  LET i == FindFrom(s, pat, 1) IN
  IF i = 0 THEN <<s>>
  ELSE <<SubSeq(s, 1, i - 1)>> \o Split(SubSeq(s, i + Len(pat), Len(s)), pat)

\* str::splitn(n, pat): as split, but at most n pieces, the last one holding
\* the rest of the string.
RECURSIVE SplitN(_, _, _)
SplitN(n, s, pat) ==
  LET i == FindFrom(s, pat, 1) IN
  IF n <= 1 \/ i = 0 THEN <<s>>
  ELSE <<SubSeq(s, 1, i - 1)>>
         \o SplitN(n - 1, SubSeq(s, i + Len(pat), Len(s)), pat)

\* str::trim_start, str::trim: drop white space at the start / at both ends.
RECURSIVE TrimStart(_)
TrimStart(s) ==
  IF s # <<>> /\ Head(s) \in Whitespace THEN TrimStart(Tail(s)) ELSE s
RECURSIVE TrimEnd(_)
TrimEnd(s) ==
  IF s # <<>> /\ Last(s) \in Whitespace THEN TrimEnd(Front(s)) ELSE s
Trim(s) == TrimEnd(TrimStart(s))

\* usize::to_string: the decimal digits of n.
Digit(d) == CASE d = 0 -> "0" [] d = 1 -> "1" [] d = 2 -> "2" [] d = 3 -> "3"
              [] d = 4 -> "4" [] d = 5 -> "5" [] d = 6 -> "6" [] d = 7 -> "7"
              [] d = 8 -> "8" [] d = 9 -> "9"
RECURSIVE Decimal(_)
Decimal(n) ==
  IF n < 10 THEN <<Digit(n)>> ELSE Decimal(n \div 10) \o <<Digit(n % 10)>>

(***************************************************************************)
(* PART III.  Request::parse, src/server/request.rs                        *)
(***************************************************************************)
NoHeaders == [k \in {} |-> <<>>]
\* HashMap::insert
Insert(h, k, v) == [x \in DOMAIN h \cup {k} |-> IF x = k THEN v ELSE h[x]]

NoRequest ==
  [some |-> FALSE, method |-> <<>>, path |-> <<>>, protocol |-> <<>>,
   headers |-> NoHeaders]

\* The loop over &protocol[1..]: a line with a colon sets the header named by
\* the trimmed text before the first colon; other lines are skipped.
RECURSIVE ParseHeaders(_, _)
ParseHeaders(lines, h) ==
  IF lines = <<>> THEN h
  ELSE LET pair == SplitN(2, Head(lines), <<":">>) IN
       ParseHeaders(Tail(lines),
                    IF Len(pair) = 2
                      THEN Insert(h, Trim(pair[1]), Trim(pair[2]))
                      ELSE h)

\* Where Request::parse indexes: request_line[2] and pair[0], pair[1] are
\* read under a length test, request_line[0], [1] and protocol[0] after
\* them; the slice &protocol[1..] panics when protocol is empty.
ParsePanics(req) ==
  LET request_line == SplitN(3, req, <<SP>>) IN
  /\ Len(request_line) = 3
  /\ Len(Split(request_line[3], CRLF)) < 1

\* A parse that takes the text after the second space as the protocol even
\* when no CRLF ends it.
ParseWithoutTerminator(req) ==
  LET request_line == SplitN(3, req, <<SP>>) IN
  IF Len(request_line) = 3
    THEN LET protocol == Split(request_line[3], CRLF) IN
         [some |-> TRUE,
          method |-> request_line[1],
          path |-> request_line[2],
          protocol |-> protocol[1],
          headers |-> ParseHeaders(Tail(protocol), NoHeaders)]
    ELSE NoRequest

\* Request::parse
Parse(req) ==
  LET request_line == SplitN(3, req, <<SP>>) IN
  IF Len(request_line) = 3
    THEN LET protocol == Split(request_line[3], CRLF) IN
         IF Len(protocol) > 1
           THEN [some |-> TRUE,
                 method |-> request_line[1],
                 path |-> request_line[2],
                 protocol |-> protocol[1],
                 headers |-> ParseHeaders(Tail(protocol), NoHeaders)]
           ELSE NoRequest
    ELSE NoRequest

(***************************************************************************)
(* PART IV.  The filesystem and src/server/files.rs                        *)
(* A node is named by its canonical path, a sequence of components; a      *)
(* component is a sequence of atoms.                                       *)
(***************************************************************************)
SLASH == "/"
DOT == "."
DotDot == <<DOT, DOT>>
HtmlExt == <<DOT, "html">>
IndexHtml == <<"index", DOT, "html">>

NoEntry == [kind |-> "none", target |-> <<>>]
FileEntry == [kind |-> "file", target |-> <<>>]
DirEntry == [kind |-> "dir", target |-> <<>>]
LinkTo(t) == [kind |-> "link", target |-> t]

\* The served root /srv and what lies outside it.
ServePath == <<SLASH, "srv">>
N_srv == <<(<<"srv">>)>>
N_etc == <<(<<"etc">>)>>
N_passwd == <<(<<"etc">>), <<"passwd">>>>
N_etc_index == <<(<<"etc">>), IndexHtml>>
\* The nodes under the served root whose state varies.
N_a == <<(<<"srv">>), <<"a">>>>
N_a_html == <<(<<"srv">>), <<"a", DOT, "html">>>>
N_a_index == <<(<<"srv">>), <<"a">>, IndexHtml>>
N_404 == <<(<<"srv">>), <<"404", DOT, "html">>>>
N_index == <<(<<"srv">>), IndexHtml>>

\* The states of the filesystem: which of the varying nodes exist, and as
\* what.  The rest of the tree is fixed.
FsStates ==
  [{N_a} -> {NoEntry, FileEntry, DirEntry, LinkTo(N_etc)}]
  \X [{N_a_html} -> {NoEntry, FileEntry, LinkTo(N_passwd)}]
  \X [{N_a_index} -> {NoEntry, FileEntry}]
  \X [{N_404} -> {NoEntry, FileEntry}]

\* The entry of node n in filesystem state f (a 4-tuple of FsStates).
Entry(f, n) ==
  CASE n = <<>> -> DirEntry
    [] n \in {N_srv, N_etc} -> DirEntry
    [] n \in {N_passwd, N_etc_index, N_index} -> FileEntry
    [] n = N_a -> f[1][n]
    [] n = N_a_html -> f[2][n]
    [] n = N_a_index -> IF f[1][N_a].kind = "dir" THEN f[3][n] ELSE NoEntry
    [] n = N_404 -> f[4][n]
    [] OTHER -> NoEntry

\* The bytes of each file, by node.
FileBytes(n) ==
  CASE n = N_passwd -> <<7, 7>>
    [] n = N_etc_index -> <<8>>
    [] n = N_a -> <<6, 6, 6, 6>>
    [] n = N_a_html -> <<1, 1, 2>>
    [] n = N_a_index -> <<3>>
    [] n = N_404 -> <<4, 0, 4>>
    [] n = N_index -> <<5, 5>>
    [] OTHER -> <<>>

NonEmpty(c) == c # <<>>
\* The components of a path string: the pieces between slashes.
Components(s) == SelectSeq(Split(s, <<SLASH>>), NonEmpty)
TrailingSlash(s) == s # <<>> /\ Last(s) = SLASH

MaxLinks == 2

\* The kernel's path walk from node at over the components rest, following
\* symbolic links; mustDir when the path string ends with a slash.
RECURSIVE Walk(_, _, _, _, _)
Walk(f, at, rest, mustDir, fuel) ==
  IF rest = <<>>
    THEN [ok |-> (mustDir => Entry(f, at).kind = "dir"), node |-> at]
  ELSE LET c == Head(rest) IN
    IF c = DotDot
      THEN Walk(f, IF at = <<>> THEN <<>> ELSE Front(at), Tail(rest),
                mustDir, fuel)
    ELSE IF c = <<DOT>> THEN Walk(f, at, Tail(rest), mustDir, fuel)
    ELSE LET nxt == Append(at, c)
             e == Entry(f, nxt) IN
      CASE e.kind = "none" -> [ok |-> FALSE, node |-> <<>>]
        [] e.kind = "file" ->
             [ok |-> Tail(rest) = <<>> /\ ~mustDir, node |-> nxt]
        [] e.kind = "dir" -> Walk(f, nxt, Tail(rest), mustDir, fuel)
        [] e.kind = "link" ->
             IF fuel = 0 THEN [ok |-> FALSE, node |-> <<>>]
             ELSE Walk(f, <<>>, e.target \o Tail(rest), mustDir, fuel - 1)

\* Path::canonicalize of an absolute path string.
Canonicalize(f, s) == Walk(f, <<>>, Components(s), TrailingSlash(s), MaxLinks)

\* Path::is_file, Path::is_dir: metadata of the path, links followed.
IsFile(f, s) ==
  LET r == Canonicalize(f, s) IN r.ok /\ Entry(f, r.node).kind = "file"
IsDir(f, s) ==
  LET r == Canonicalize(f, s) IN r.ok /\ Entry(f, r.node).kind = "dir"

\* Path::file_name: the last component, unless the path ends in "..".
NotCurDir(c) == c # <<DOT>>
HasFileName(s) ==
  LET cs == SelectSeq(Components(s), NotCurDir) IN
  cs # <<>> /\ Last(cs) # DotDot
FileName(s) == Last(SelectSeq(Components(s), NotCurDir))

\* The index of the last dot of a file name, 0 when it has none.
RECURSIVE LastDot(_, _)
LastDot(name, i) ==
  IF i = 0 THEN 0 ELSE IF name[i] = DOT THEN i ELSE LastDot(name, i - 1)

\* Path::extension: the text after the last dot of the file name; none for
\* a name without a dot or whose only dot is its first character.
HasExtension(s) ==
  HasFileName(s) /\ LastDot(FileName(s), Len(FileName(s))) > 1
Extension(s) ==
  LET name == FileName(s) IN
  SubSeq(name, LastDot(name, Len(name)) + 1, Len(name))

\* The path string cut right after its file name.
RECURSIVE CutAfterFileName(_)
CutAfterFileName(s) ==
  IF s = <<>> THEN s
  ELSE IF Last(s) = SLASH THEN CutAfterFileName(Front(s))
  ELSE IF Len(s) >= 2 /\ Last(s) = DOT /\ s[Len(s) - 1] = SLASH
    THEN CutAfterFileName(Front(s))
  ELSE s

\* Path::with_extension("html"): the path cut after the file stem, plus
\* ".html"; unchanged when the path has no file name.
WithExtensionHtml(s) ==
  IF ~HasFileName(s) THEN s
  ELSE LET cut == CutAfterFileName(s)
           name == FileName(s)
           d == LastDot(name, Len(name)) IN
       (IF d > 1 THEN SubSeq(cut, 1, Len(cut) - (Len(name) - d + 1)) ELSE cut)
         \o HtmlExt

\* Path::join("index.html") and to_str.
JoinIndexHtml(s) ==
  IF TrailingSlash(s) \/ s = <<>> THEN s \o IndexHtml
  ELSE s \o <<SLASH>> \o IndexHtml

NoPath == [some |-> FALSE, path |-> <<>>]
SomePath(s) == [some |-> TRUE, path |-> s]

\* resolve_file_path
resolve_file_path(f, path) ==
  IF IsFile(f, path) THEN SomePath(path)
  ELSE IF ~HasExtension(path) /\ IsFile(f, WithExtensionHtml(path))
    THEN SomePath(path \o HtmlExt)
  ELSE IF IsDir(f, path) /\ IsFile(f, JoinIndexHtml(path))
    THEN SomePath(JoinIndexHtml(path))
  ELSE NoPath

\* in_serve_folder
in_serve_folder(f, root, path) ==
  LET r == Canonicalize(f, root)
      c == Canonicalize(f, path) IN
  IF ~r.ok THEN FALSE
  ELSE IF ~c.ok THEN FALSE
  ELSE IsPrefix(r.node, c.node)

\* HttpContent::new, first half: strip one leading slash or backslash and
\* join with the served folder.
CombinedPath(serve_path, content_path) ==
  serve_path \o <<SLASH>>
    \o (IF content_path # <<>> /\ Head(content_path) \in {SLASH, "\\"}
          THEN Tail(content_path) ELSE content_path)

(***************************************************************************)
(* PART V.  Content policy and Response, src/server/{files,response}.rs    *)
(***************************************************************************)
Minute == 60
Hour == 3600
Day == 86400

NoContentHeaders ==
  [some |-> FALSE, content_type |-> "", cache_age |-> 0, compress |-> FALSE]
ContentHeaders(t, age, gz) ==
  [some |-> TRUE, content_type |-> t, cache_age |-> age, compress |-> gz]

\* HttpContent::content_headers: the table keyed by the file's extension.
content_headers(file_path) ==
  LET ext == IF HasExtension(file_path) THEN Extension(file_path) ELSE <<>> IN
  CASE ext = <<"html">> -> ContentHeaders("text/html; charset=UTF-8", Minute, TRUE)
    [] ext = <<"css">> -> ContentHeaders("text/css; charset=UTF-8", 3 * Day, TRUE)
    [] ext = <<"js">> -> ContentHeaders("text/javascript; charset=UTF-8", 3 * Day, TRUE)
    [] ext = <<"txt">> -> ContentHeaders("text/plain; charset=UTF-8", Minute, TRUE)
    [] ext = <<"json">> -> ContentHeaders("application/json; charset=UTF-8", Hour, TRUE)
    [] ext = <<"svg">> -> ContentHeaders("image/svg+xml; charset=UTF-8", 7 * Day, TRUE)
    [] ext = <<"webp">> -> ContentHeaders("image/webp", 3 * Day, FALSE)
    [] ext \in {<<"jpg">>, <<"jpeg">>} -> ContentHeaders("image/jpeg", 3 * Day, FALSE)
    [] ext = <<"ico">> -> ContentHeaders("image/x-icon", 7 * Day, FALSE)
    [] ext = <<"png">> -> ContentHeaders("image/png", 3 * Day, FALSE)
    [] ext = <<"otf">> -> ContentHeaders("font/otf", 7 * Day, TRUE)
    [] ext = <<"ttf">> -> ContentHeaders("font/ttf", 7 * Day, TRUE)
    [] ext = <<"mp4">> -> ContentHeaders("video/mp4", Day, FALSE)
    [] ext = <<"mp3">> -> ContentHeaders("audio/mp3", Day, FALSE)
    [] OTHER -> ContentHeaders("application/octet-stream", Minute, FALSE)

\* HttpStatus and Response::status_to_string
StatusText(status) ==
  CASE status = "Ok" -> "200 OK"
    [] status = "NotFound" -> "404 NOT FOUND"
    [] status = "BadRequest" -> "400 BAD REQUEST"
    [] status = "NotAllowed" -> "405 METHOD NOT ALLOWED"
    [] status = "ServerError" -> "500 INTERNAL SERVER ERROR"
    [] status = "UnsupportedVersion" -> "505 HTTP VERSION NOT SUPPORTED"

\* Response::new
NewResponse(status, payload) ==
  [status |-> status, protocol |-> "HTTP/1.1", headers |-> NoHeaders,
   payload |-> payload]

\* Default headers without the Date header.
set_default_headers_NoDate(r) ==
  [r EXCEPT !.headers =
     Insert(Insert(Insert(r.headers,
       "Connection", <<"close">>),
       "Content-Length", Decimal(Len(r.payload))),
       "Permissions-Policy", <<"interest-cohort=()">>)]

\* Response::set_default_headers.  The Date value is the clock's, which no
\* code of the server reads back.
set_default_headers(r) ==
  [r EXCEPT !.headers =
     Insert(Insert(Insert(Insert(r.headers,
       "Connection", <<"close">>),
       "Content-Length", Decimal(Len(r.payload))),
       "Date", <<"now">>),
       "Permissions-Policy", <<"interest-cohort=()">>)]

\* Response::set_content_headers
set_content_headers(r, h) ==
  [r EXCEPT !.headers =
     Insert(Insert(r.headers,
       "Content-Type", <<h.content_type>>),
       "Cache-Control", <<"max-age=">> \o Decimal(h.cache_age))]

\* The gzip stream of a payload: a header, the deflated data (here: runs
\* of equal bytes as count, byte), and a trailer with a checksum and the
\* length of the input.
RECURSIVE RunLength(_, _)
RunLength(p, i) ==
  IF p = <<>> THEN <<>>
  ELSE IF i < Len(p) /\ p[i + 1] = p[1] THEN RunLength(p, i + 1)
  ELSE <<i, p[1]>> \o RunLength(SubSeq(p, i + 1, Len(p)), 1)
RECURSIVE ByteSum(_)
ByteSum(p) == IF p = <<>> THEN 0 ELSE (Head(p) + ByteSum(Tail(p))) % 256
Gzip(p) == <<31, 139, 8>> \o RunLength(p, 1) \o <<ByteSum(p), Len(p) % 256>>

\* A compress_gzip that leaves the Content-Length set_default_headers wrote.
compress_gzip_StaleLength(r) ==
  [r EXCEPT !.payload = Gzip(r.payload),
            !.headers = Insert(Insert(r.headers,
              "Content-Encoding", <<"gzip">>),
              "Vary", <<"Accept-Encoding">>)]

\* Response::compress_gzip when the encoder succeeds.  When write_all or
\* finish fails, the ? returns before anything of the response is changed.
compress_gzip(r) ==
  LET z == Gzip(r.payload) IN
  [r EXCEPT !.payload = z,
            !.headers = Insert(Insert(Insert(r.headers,
              "Content-Encoding", <<"gzip">>),
              "Vary", <<"Accept-Encoding">>),
              "Content-Length", Decimal(Len(z)))]

\* A compress_gzip that sets the encoding headers before it runs the
\* encoder, and so leaves them behind when the encoder fails.
compress_gzip_err_HeadersSet(r) ==
  [r EXCEPT !.headers = Insert(Insert(r.headers,
              "Content-Encoding", <<"gzip">>),
              "Vary", <<"Accept-Encoding">>)]

\* Response::compress_gzip when write_all or finish fails (lines 91-92): the
\* ? returns the error before the payload or any header is assigned.
compress_gzip_err(r) == r

\* respond, lines 215-224: the response that is handed to send.
BuildResponse(bytebuffer, h, status, gzip_ok) ==
  LET r1 == set_default_headers(NewResponse(status, bytebuffer))
      r2 == IF h.some THEN set_content_headers(r1, h) ELSE r1 IN
  IF h.some /\ h.compress
    THEN IF gzip_ok THEN compress_gzip(r2) ELSE compress_gzip_err(r2)
    ELSE r2

\* Response::headers_to_string: the status line and the header lines.
HeadOf(r) ==
  [status_line |-> <<r.protocol, SP, StatusText(r.status), CR, LF>>,
   headers |-> r.headers]

NoWire == [head |-> <<>>, body |-> <<>>]
\* Response::send as src/server/response.rs defines it: write the head, then
\* write_all the payload, then flush; an I/O error ends it at that write.
\* respond passes include_body, which this send has no parameter for.
Send(r, include_body, io) ==
  CASE io = "err_head" -> NoWire
    [] io = "err_body" -> [head |-> <<HeadOf(r)>>, body |-> <<>>]
    [] OTHER -> [head |-> <<HeadOf(r)>>, body |-> r.payload]

(***************************************************************************)
(* PART VI.  handle_connection, src/lib.rs                                 *)
(***************************************************************************)
GET == <<"GET">>
HEAD == <<"HEAD">>
POST == <<"POST">>
HTTP11 == <<"HTTP", SLASH, "1", DOT, "1">>
HTTP10 == <<"HTTP", SLASH, "1", DOT, "0">>
AcceptEncoding == <<"Accept-Encoding">>
NotFoundPage == <<"404", DOT, "html">>
\* b"500 Internal Server Error"
ServerErrorBody ==
  <<53, 48, 48, 32, 73, 110, 116, 101, 114, 110, 97, 108, 32,
    83, 101, 114, 118, 101, 114, 32, 69, 114, 114, 111, 114>>

\* The requests a client may send.
Methods == {GET, HEAD, POST, <<"get">>}
Protocols == {HTTP11, HTTP10}
RequestPaths ==
  { <<SLASH>>,
    <<SLASH, "a", DOT, "html">>,
    <<SLASH, "a">>,
    <<SLASH, "a", SLASH>>,
    <<SLASH, "zz">>,
    <<SLASH, DOT, DOT, SLASH, "etc", SLASH, "passwd">>,
    <<SLASH, "a", SLASH, DOT, DOT, SLASH, DOT, DOT, SLASH, "etc", SLASH,
      "passwd">> }
HeaderBlocks ==
  { <<>>,
    <<"Accept-Encoding", ":", SP, "deflate", ",", SP, "gzip", CR, LF>>,
    <<"accept-encoding", ":", SP, "gzip", CR, LF>>,
    <<"Accept-Encoding", ":", "br", ",", "gzip", ";q=1", CR, LF>>,
    <<"Accept-Encoding", ":", SP, "x-", "gzip", ",", "br", CR, LF>> }
WellFormed ==
  { m \o <<SP>> \o p \o <<SP>> \o v \o CRLF \o h \o CRLF :
      m \in Methods, p \in RequestPaths, v \in Protocols, h \in HeaderBlocks }
Malformed ==
  { <<>>,
    GET,
    GET \o <<SP, SLASH>>,
    GET \o <<SP, SLASH, SP>> \o HTTP11,
    <<CR, LF>> }
ClientBytes == WellFormed \cup Malformed

NoObs == [resolved |-> "unset", read |-> "unset", bytes |-> <<>>]

\* handle_connection is entered: nothing read, parsed or sent yet.
ConnStart ==
  /\ hpc = "read"
  /\ buffer = <<>>
  /\ request = NoRequest
  /\ accepts_gzip = FALSE
  /\ send_body = FALSE
  /\ stage = "primary"
  /\ content = NoPath
  /\ obs = [primary |-> NoObs, fallback |-> NoObs]
  /\ opened = <<>>
  /\ responses = <<>>
  /\ wire = <<>>

ConnInit ==
  /\ stream_in \in ClientBytes
  /\ fs \in FsStates
  /\ ConnStart

\* respond: build the response, send it, log a send error.  The handler
\* returns after every call of respond.
Respond(bytebuffer, h, status, include_body) ==
  \E gzip_ok \in (IF h.some /\ h.compress THEN BOOLEAN ELSE {TRUE}) :
  \E io \in {"ok", "err_head", "err_body"} :
    LET r == BuildResponse(bytebuffer, h, status, gzip_ok) IN
    /\ responses' = Append(responses,
                           [response |-> r, include_body |-> include_body,
                            bytebuffer |-> bytebuffer,
                            compress_err |->
                              h.some /\ h.compress /\ ~gzip_ok])
    /\ wire' = Append(wire, Send(r, include_body, io))
    /\ hpc' = "done"

\* empty_response
empty_response(status) == Respond(<<>>, NoContentHeaders, status, FALSE)

\* server_error
server_error(include_body) ==
  Respond(ServerErrorBody, ContentHeaders("text/plain", 0, FALSE),
          "ServerError", include_body)

\* success and not_found: compress only when the client allows it.
success(bytebuffer, h, allow_compression, include_body) ==
  Respond(bytebuffer, [h EXCEPT !.compress = h.compress /\ allow_compression],
          "Ok", include_body)
not_found(bytebuffer, h, allow_compression, include_body) ==
  Respond(bytebuffer, [h EXCEPT !.compress = h.compress /\ allow_compression],
          "NotFound", include_body)

\* A negotiation that looks the header up whatever the case of its name.
AcceptsGzipAnyCase(headers) ==
  \E name \in {AcceptEncoding, <<"accept-encoding">>} \cap DOMAIN headers :
    LET parts == Split(headers[name], <<",">>) IN
    \E i \in 1..Len(parts) : IsPrefix(<<"gzip">>, TrimStart(parts[i]))

\* lines 97-108: some comma-separated piece of the Accept-Encoding header
\* starts, after its leading white space, with "gzip".
AcceptsGzip(headers) ==
  /\ AcceptEncoding \in DOMAIN headers
  /\ LET parts == Split(headers[AcceptEncoding], <<",">>) IN
     \E i \in 1..Len(parts) : IsPrefix(<<"gzip">>, TrimStart(parts[i]))

\* lines 61-70: stream.read into the zeroed buffer; the bytes not written
\* stay zero (one NUL atom stands for that run), and none is left when the
\* client's bytes fill the buffer.
ReadRequest ==
  /\ hpc = "read"
  /\ \/ /\ buffer' \in {stream_in \o <<NUL>>} \cup
                       (IF stream_in # <<>> THEN {stream_in} ELSE {})
        /\ hpc' = "parse"
        /\ UNCHANGED <<responses, wire>>
     \/ /\ empty_response("BadRequest")
        /\ UNCHANGED buffer
  /\ UNCHANGED <<stream_in, request, accepts_gzip, send_body, fs, stage,
                 content, obs, opened>>

\* A handler that returns on a parse failure without answering.
ParseRequestSilent ==
  /\ hpc = "parse"
  /\ request' = Parse(buffer)
  /\ IF ParsePanics(buffer)
       THEN hpc' = "panicked" /\ UNCHANGED accepts_gzip
       ELSE IF request'.some
       THEN /\ accepts_gzip' = AcceptsGzip(request'.headers)
            /\ hpc' = "protocol"
       ELSE /\ hpc' = "done"
            /\ UNCHANGED accepts_gzip
  /\ UNCHANGED <<stream_in, buffer, send_body, fs, stage, content, obs,
                 opened, responses, wire>>

\* lines 74-108: parse, log, and note whether the client accepts gzip.
ParseRequest ==
  /\ hpc = "parse"
  /\ request' = Parse(buffer)
  /\ IF ParsePanics(buffer)
       THEN hpc' = "panicked" /\ UNCHANGED <<accepts_gzip, responses, wire>>
       ELSE IF request'.some
       THEN /\ accepts_gzip' = AcceptsGzip(request'.headers)
            /\ hpc' = "protocol"
            /\ UNCHANGED <<responses, wire>>
       ELSE /\ empty_response("BadRequest")
            /\ UNCHANGED accepts_gzip
  /\ UNCHANGED <<stream_in, buffer, send_body, fs, stage, content, obs,
                 opened>>

\* A protocol check that accepts every HTTP/1.x token.
CheckProtocolAnyMinor ==
  /\ hpc = "protocol"
  /\ IF ~IsPrefix(<<"HTTP", SLASH, "1", DOT>>, request.protocol)
       THEN empty_response("UnsupportedVersion")
       ELSE hpc' = "method" /\ UNCHANGED <<responses, wire>>
  /\ UNCHANGED <<stream_in, buffer, request, accepts_gzip, send_body, fs,
                 stage, content, obs, opened>>

\* A handler that looks at the method before the protocol.
CheckProtocolMethodFirst ==
  /\ hpc = "protocol"
  /\ IF request.method # GET /\ request.method # HEAD
       THEN empty_response("NotAllowed")
       ELSE IF request.protocol # HTTP11
         THEN empty_response("UnsupportedVersion")
         ELSE hpc' = "method" /\ UNCHANGED <<responses, wire>>
  /\ UNCHANGED <<stream_in, buffer, request, accepts_gzip, send_body, fs,
                 stage, content, obs, opened>>

\* lines 110-113
CheckProtocol ==
  /\ hpc = "protocol"
  /\ IF request.protocol # HTTP11
       THEN empty_response("UnsupportedVersion")
       ELSE hpc' = "method" /\ UNCHANGED <<responses, wire>>
  /\ UNCHANGED <<stream_in, buffer, request, accepts_gzip, send_body, fs,
                 stage, content, obs, opened>>

\* A method check that forgets HEAD.
CheckMethodGetOnly ==
  /\ hpc = "method"
  /\ send_body' = (request.method # HEAD)
  /\ IF request.method # GET
       THEN empty_response("NotAllowed")
       ELSE hpc' = "resolve" /\ UNCHANGED <<responses, wire>>
  /\ UNCHANGED <<stream_in, buffer, request, accepts_gzip, fs, stage,
                 content, obs, opened>>

\* lines 115-124
CheckMethod ==
  /\ hpc = "method"
  /\ send_body' = (request.method # HEAD)
  /\ IF request.method # GET /\ request.method # HEAD
       THEN empty_response("NotAllowed")
       ELSE hpc' = "resolve" /\ UNCHANGED <<responses, wire>>
  /\ UNCHANGED <<stream_in, buffer, request, accepts_gzip, fs, stage,
                 content, obs, opened>>

\* The content path HttpContent::new is called with: the request's path,
\* then "404.html".
ContentPath == IF stage = "primary" THEN request.path ELSE NotFoundPage

\* A stage ended without content: the primary falls back to 404.html, the
\* fallback to server_error (lines 137, 148).
NoContent ==
  /\ obs' = [obs EXCEPT ![stage].resolved = "none"]
  /\ content' = NoPath
  /\ IF stage = "primary"
       THEN /\ stage' = "fallback"
            /\ hpc' = "resolve"
            /\ UNCHANGED <<responses, wire>>
       ELSE /\ server_error(send_body)
            /\ UNCHANGED stage

\* HttpContent::new, lines 21-23 of files.rs: resolve_file_path.
ResolveContent ==
  /\ hpc = "resolve"
  /\ LET r == resolve_file_path(fs, CombinedPath(ServePath, ContentPath)) IN
     IF r.some
       THEN /\ content' = r
            /\ hpc' = "check"
            /\ UNCHANGED <<stage, obs, responses, wire>>
       ELSE NoContent
  /\ UNCHANGED <<stream_in, buffer, request, accepts_gzip, send_body, fs,
                 opened>>

\* HttpContent::new, lines 24-28 of files.rs: in_serve_folder.
CheckContent ==
  /\ hpc = "check"
  /\ IF in_serve_folder(fs, ServePath, content.path)
       THEN /\ obs' = [obs EXCEPT ![stage].resolved = "some"]
            /\ hpc' = "open"
            /\ UNCHANGED <<stage, content, responses, wire>>
       ELSE NoContent
  /\ UNCHANGED <<stream_in, buffer, request, accepts_gzip, send_body, fs,
                 opened>>

\* A handler in which a read failure of the primary file falls back to
\* 404.html instead of answering 500.
GetBytesFallsBack ==
  /\ hpc = "open"
  /\ LET c == Canonicalize(fs, content.path) IN
     \E io_ok \in BOOLEAN :
       /\ opened' = IF c.ok /\ io_ok THEN Append(opened, c.node) ELSE opened
       /\ IF c.ok /\ io_ok /\ Entry(fs, c.node).kind = "file"
            THEN /\ obs' = [obs EXCEPT ![stage].read = "ok",
                                       ![stage].bytes = FileBytes(c.node)]
                 /\ IF stage = "primary"
                      THEN success(FileBytes(c.node),
                                   content_headers(content.path),
                                   accepts_gzip, send_body)
                      ELSE not_found(FileBytes(c.node),
                                     content_headers(content.path),
                                     accepts_gzip, send_body)
                 /\ UNCHANGED <<stage, content>>
            ELSE /\ obs' = [obs EXCEPT ![stage].read = "err"]
                 /\ IF stage = "primary"
                      THEN /\ stage' = "fallback"
                           /\ content' = NoPath
                           /\ hpc' = "resolve"
                           /\ UNCHANGED <<responses, wire>>
                      ELSE /\ server_error(send_body)
                           /\ UNCHANGED <<stage, content>>
  /\ UNCHANGED <<stream_in, buffer, request, accepts_gzip, send_body, fs>>

\* HttpContent::get_bytes and the match on it (lines 127-136, 138-147):
\* File::open follows the path as the filesystem is now; open or
\* read_to_end may fail.
GetBytes ==
  /\ hpc = "open"
  /\ LET c == Canonicalize(fs, content.path) IN
     \E io_ok \in BOOLEAN :
       /\ opened' = IF c.ok /\ io_ok THEN Append(opened, c.node) ELSE opened
       /\ IF c.ok /\ io_ok /\ Entry(fs, c.node).kind = "file"
            THEN /\ obs' = [obs EXCEPT ![stage].read = "ok",
                                       ![stage].bytes = FileBytes(c.node)]
                 /\ IF stage = "primary"
                      THEN success(FileBytes(c.node),
                                   content_headers(content.path),
                                   accepts_gzip, send_body)
                      ELSE not_found(FileBytes(c.node),
                                     content_headers(content.path),
                                     accepts_gzip, send_body)
            ELSE /\ obs' = [obs EXCEPT ![stage].read = "err"]
                 /\ server_error(send_body)
  /\ UNCHANGED <<stream_in, buffer, request, accepts_gzip, send_body, fs,
                 stage, content>>

\* Another process changes the served tree while the handler is between
\* two of its file operations.
FsChange ==
  /\ hpc \in {"check", "open"} \/ (hpc = "resolve" /\ stage = "fallback")
  /\ \E f \in FsStates :
       /\ Cardinality({i \in 1..4 : f[i] # fs[i]}) = 1
       /\ fs' = f
  /\ UNCHANGED <<stream_in, hpc, buffer, request, accepts_gzip, send_body,
                 stage, content, obs, opened, responses, wire>>

(***************************************************************************)
(* Specifications.  Spec is the pool with jobs as opaque units of work;    *)
(* ConnSpec is one connection's handle_connection against the filesystem.  *)
(***************************************************************************)
\* The pool as ConnSpec leaves it, and the connection as Spec leaves it.
PoolIdle == max_threads = 1 /\ PoolInit
ConnIdle ==
  /\ stream_in = <<>>
  /\ fs = (CHOOSE f \in FsStates : TRUE)
  /\ ConnInit

Init == PoolInit /\ ConnIdle
Next ==
  \/ Execute /\ UNCHANGED connVars
  \/ \E w \in Workers : WorkerLock(w) /\ UNCHANGED connVars
  \/ \E w \in Workers : WorkerRecv(w) /\ UNCHANGED connVars
  \/ \E w \in Workers : JobReturn(w) /\ UNCHANGED connVars
  \/ \E w \in Workers : JobPanic(w) /\ UNCHANGED connVars
  \/ DropBegin /\ UNCHANGED connVars
  \/ DropSend /\ UNCHANGED connVars
  \/ DropJoin /\ UNCHANGED connVars
Spec == Init /\ [][Next]_vars

\* Scheduling: every thread that can take a step eventually takes one (the OS
\* scheduler), a running job eventually ends, and drop, once begun, proceeds.
\* Nothing obliges the caller to call execute or to drop the pool.
PoolFairness ==
  /\ \A w \in 1..MaxThreads :
       WF_vars(w \in Workers /\ WorkerStep(w) /\ UNCHANGED connVars)
  /\ WF_vars(DropSend /\ UNCHANGED connVars)
  /\ WF_vars(DropJoin /\ UNCHANGED connVars)
FairSpec == Init /\ [][Next]_vars /\ PoolFairness

\* Scheduling without any promise that a job ends: a worker that can take
\* the receiver mutex, or holds it with a message buffered, eventually does
\* its step; a running job may run forever.
QueueFairness ==
  \A w \in 1..MaxThreads :
    /\ WF_vars(w \in Workers /\ WorkerLock(w) /\ UNCHANGED connVars)
    /\ WF_vars(w \in Workers /\ WorkerRecv(w) /\ UNCHANGED connVars)
QueueFairSpec == Init /\ [][Next]_vars /\ QueueFairness

ConnSpecInit == ConnInit /\ PoolIdle
ConnSpecNext ==
  \/ ReadRequest /\ UNCHANGED poolVars
  \/ ParseRequest /\ UNCHANGED poolVars
  \/ CheckProtocol /\ UNCHANGED poolVars
  \/ CheckMethod /\ UNCHANGED poolVars
  \/ ResolveContent /\ UNCHANGED poolVars
  \/ CheckContent /\ UNCHANGED poolVars
  \/ GetBytes /\ UNCHANGED poolVars
  \/ FsChange /\ UNCHANGED poolVars
ConnSpec == ConnSpecInit /\ [][ConnSpecNext]_vars

\* ParseSpec is the same handler fed every short byte string over the
\* characters Request::parse looks at, some longer broken requests, and the
\* requests of ConnSpec, against one filesystem.
MaxParseLen == 5
\* U+FFFD, which from_utf8_lossy puts in place of a byte that is not UTF-8.
REPL == "<U+FFFD>"
ParseAlphabet == {SP, CR, LF, ":", "x", REPL}
ParseSamples ==
  { GET \o <<SP, SLASH, SP>> \o HTTP11 \o <<CR>>,
    GET \o <<SP, SLASH, SP>> \o HTTP11 \o <<LF, CR>>,
    GET \o <<SP, SLASH, SP>> \o HTTP11 \o CRLF \o <<"Host">>,
    GET \o <<SP, SLASH, SP>> \o HTTP11 \o CRLF
      \o <<SP, "Host", SP, ":", SP, "x", ":", "80", SP>> \o CRLF,
    GET \o <<SP, SLASH, SP>> \o HTTP11 \o <<SP, "x">> \o CRLF \o <<":">>,
    <<REPL, SP, REPL, SP, REPL, CR, LF, REPL, ":", REPL>>,
    <<SP, SP, SP, CR, LF, CR, LF>> }
ParseInputs ==
  UNION {[1..k -> ParseAlphabet] : k \in 0..MaxParseLen}
    \cup ParseSamples \cup ClientBytes
ParseSpecInit ==
  /\ PoolIdle
  /\ stream_in \in ParseInputs
  /\ fs = (CHOOSE f \in FsStates : TRUE)
  /\ ConnStart
ParseSpec == ParseSpecInit /\ [][ConnSpecNext]_vars

(***************************************************************************)
(* Claims about the worker pool.                                           *)
(***************************************************************************)

\* C1: every job passed to execute while the pool is alive is run by exactly
\* one worker, exactly once: never twice, never by two workers, and, under
\* fair scheduling with every job ending, eventually.
C1_EveryJobRunExactlyOnce ==
  /\ [](\A j \in Jobs : runs[j] <= 1 /\ Cardinality(ranBy[j]) <= 1)
  /\ \A j \in Jobs : (nextJob > j) ~> (runs[j] = 1)

\* C2: a job that fails does not cost the pool a worker: while the pool is
\* alive all max_threads workers are alive, every submitted job is accepted,
\* and drop does not fail.
C2_WorkerSurvivesJobFailure ==
  /\ dropPc = "alive" => Cardinality(LiveWorkers) = max_threads
  /\ \A j \in Jobs : jobState[j] # "rejected"
  /\ dropPc # "panicked"

\* C3: drop sends one Terminate per worker and joins every worker; with
\* every job ending, drop eventually returns, and when it has returned every
\* worker has exited having consumed exactly one Terminate and no Terminate
\* is left in the channel.
C3_DropReturnsAllJoined ==
  /\ [](dropPc \in {"joining", "returned"} => sent = max_threads)
  /\ [](dropPc = "returned" =>
          /\ \A w \in Workers : wpc[w] = "exited" /\ termRecv[w] = 1
          /\ \A i \in 1..Len(queue) : queue[i] # Terminate)
  /\ (dropPc = "sending") ~> (dropPc = "returned")

\* C4: at the step in which a worker honours Terminate it is idle, and every
\* job it had dequeued has run to completion.
C4_TerminateOnlyWhenIdle ==
  [][\A w \in Workers :
       (wpc[w] # "exited" /\ wpc'[w] = "exited")
         => /\ cur[w] = 0
            /\ \A j \in Jobs : w \in ranBy[j] => jobState[j] = "done"]_vars

\* C4 witness: a worker ran a job to completion and has since honoured a
\* Terminate and exited.
C4_Witness ==
  \E w \in Workers : \E j \in Jobs :
    /\ wpc[w] = "exited"
    /\ termRecv[w] = 1
    /\ ranBy[j] = {w}
    /\ jobState[j] = "done"

\* C16: jobs are dequeued in the order they were enqueued: execute is
\* called with jobs 1, 2, ... in turn, and a job is removed from the queue,
\* and so started, before every job enqueued after it, however many workers
\* race; the order in which jobs complete is free.
C16_FifoDequeue ==
  /\ \A i \in 1..Len(started) : \A k \in 1..(i - 1) : started[k] < started[i]
  /\ \A i \in 1..Len(queue) : \A k \in 1..Len(started) :
       queue[i] # Terminate => started[k] < queue[i]
  /\ \A j \in Jobs :
       jobState[j] \in {"running", "done", "panicked"} =>
         \A k \in 1..(j - 1) : jobState[k] \notin {"new", "queued"}

\* C16 witness: with two workers jobs 1, 2, 3 were started in that order
\* and job 2 completed while job 1 was still running.
C16_Witness ==
  /\ started = <<1, 2, 3>>
  /\ jobState[1] = "running"
  /\ jobState[2] = "done"
  /\ jobState[3] = "running"

Running == {j \in Jobs : jobState[j] = "running"}

\* C17: at any time at most max_threads jobs are being executed and at most
\* max_threads worker threads exist: the threads are the max_threads that
\* new spawned, each runs one job at a time, a job that is being executed
\* is the current job of one live worker, and the others wait in the queue.
C17_AtMostMaxThreadsRunning ==
  /\ Cardinality(Running) <= max_threads
  /\ DOMAIN wpc = 1..max_threads
  /\ Cardinality(LiveWorkers) <= max_threads
  /\ \A j \in Running :
       Cardinality({w \in LiveWorkers : wpc[w] = "run" /\ cur[w] = j}) = 1
  /\ \A w \in Workers : wpc[w] = "run" <=> cur[w] \in Running

\* C17 witness: both workers of a pool of two are running a job and the
\* third job waits in the queue.
C17_Witness ==
  /\ max_threads = 2
  /\ Cardinality(Running) = 2
  /\ queue = <<3>>
  /\ jobState[3] = "queued"

IdleWorkerExists == \E w \in Workers : wpc[w] \in {"idle", "locked"}

\* C18: a worker holds the receiver mutex only while it waits for and takes
\* one message, never while it runs a job; so while a worker runs a job
\* that may never end the mutex is free or held by a waiting worker, and a
\* queued job does not stay queued forever beside an idle worker.
C18_LockOnlyWhileReceiving ==
  /\ [](\A w \in Workers : lock = w <=> wpc[w] = "locked")
  /\ [](lock \in 0..max_threads)
  /\ \A j \in Jobs :
       (jobState[j] = "queued" /\ IdleWorkerExists)
         ~> ~(jobState[j] = "queued" /\ IdleWorkerExists)

\* C18 witness: while worker 1 is running job 1, worker 2 has taken the
\* mutex, dequeued job 2 and is running it.
C18_Witness ==
  /\ max_threads = 2
  /\ wpc[1] = "run" /\ cur[1] = 1
  /\ wpc[2] = "run" /\ cur[2] = 2
  /\ lock = 0

\* C19: when drop has returned, every job that execute enqueued has run to
\* completion and none is left in the queue, provided no job panicked: the
\* Terminates are queued behind every job.
C19_NoJobLeftAtShutdown ==
  /\ \A i \in 1..Len(queue) : \A k \in 1..(i - 1) :
       queue[k] = Terminate => queue[i] = Terminate
  /\ (dropPc = "returned" /\ \A j \in Jobs : jobState[j] # "panicked") =>
       /\ queue = <<>>
       /\ \A j \in 1..(nextJob - 1) : jobState[j] = "done" /\ runs[j] = 1
       /\ \A j \in nextJob..MaxJobs : jobState[j] = "new"

\* C19 witness: drop has returned from a pool of two after all the jobs
\* were enqueued and run.
C19_Witness ==
  /\ dropPc = "returned"
  /\ max_threads = 2
  /\ nextJob = MaxJobs + 1
  /\ \A j \in Jobs : jobState[j] = "done"

(***************************************************************************)
(* Claims about the connection handler (checked under ConnSpec).           *)
(***************************************************************************)
Answered == hpc = "done" /\ Len(responses) = 1
TheResponse == responses[1].response
ValidRequest ==
  request.some /\ request.protocol = HTTP11 /\ request.method \in {GET, HEAD}
CanonicalRoot(f) == Canonicalize(f, ServePath).node

\* C5: sandboxing.  The path HttpContent::new returned has, when
\* canonicalized, the canonical served root as a prefix, and this still holds
\* when get_bytes opens it: every file File::open opens lies, by its
\* canonical path at that moment, in the served root's tree.
C5_NoFileOutsideRootOpened ==
  \A i \in 1..Len(opened) : IsPrefix(CanonicalRoot(fs), opened[i])

\* C6: a HEAD request gets no body bytes on the wire, and the Content-Length
\* it is sent is the length of the payload the same GET would be sent.
C6_HeadNoBodyOnWire ==
  (hpc = "done" /\ request.some /\ request.method = HEAD) =>
    /\ \A i \in 1..Len(wire) : wire[i].body = <<>>
    /\ \A i \in 1..Len(responses) :
         responses[i].response.headers["Content-Length"]
           = Decimal(Len(responses[i].response.payload))

\* C7: a parsed request whose protocol is not exactly HTTP/1.1 is answered
\* 505 with an empty body, whatever its method, path and headers.
C7_UnsupportedVersion505 ==
  (hpc = "done" /\ request.some /\ request.protocol # HTTP11) =>
    /\ Answered
    /\ TheResponse.status = "UnsupportedVersion"
    /\ TheResponse.payload = <<>>
    /\ wire[1].body = <<>>

C7_Witness ==
  /\ Answered
  /\ request.some
  /\ request.protocol = HTTP10
  /\ request.method = POST
  /\ AcceptEncoding \in DOMAIN request.headers
  /\ TheResponse.status = "UnsupportedVersion"

\* C8: a parsed HTTP/1.1 request whose method is neither GET nor HEAD is
\* answered 405 with an empty body; GET and HEAD are never answered 405.
C8_MethodNotAllowed405 ==
  (hpc = "done" /\ request.some /\ request.protocol = HTTP11) =>
    /\ Answered
    /\ request.method \notin {GET, HEAD} =>
         /\ TheResponse.status = "NotAllowed"
         /\ TheResponse.payload = <<>>
         /\ wire[1].body = <<>>
    /\ request.method \in {GET, HEAD} => TheResponse.status # "NotAllowed"

C8_Witness ==
  /\ Answered
  /\ request.some
  /\ request.protocol = HTTP11
  /\ request.method = POST
  /\ TheResponse.status = "NotAllowed"

\* C9: when the read fails or the bytes read do not parse, the handler sends
\* one response, 400 with no body, and does nothing further: it consults
\* neither the resolver nor the filesystem.
C9_BadRequest400 ==
  (hpc = "done" /\ ~request.some) =>
    /\ Answered
    /\ TheResponse.status = "BadRequest"
    /\ TheResponse.payload = <<>>
    /\ ~responses[1].include_body
    /\ wire[1].body = <<>>
    /\ obs = [primary |-> NoObs, fallback |-> NoObs]
    /\ opened = <<>>

\* C9 witness: bytes were read, did not parse, and were answered 400.
C9_Witness ==
  /\ Answered
  /\ buffer = GET \o <<SP, SLASH, SP>> \o HTTP11 \o <<NUL>>
  /\ ~request.some
  /\ TheResponse.status = "BadRequest"

\* C10: for a valid GET/HEAD HTTP/1.1 request the status is decided by what
\* the filesystem gave: 200 with the file's bytes iff the path resolved and
\* its file was read; 404 with the bytes of 404.html iff the path did not
\* resolve and 404.html resolved and was read; otherwise 500 with the body
\* "500 Internal Server Error", text/plain, uncompressed.
C10_StatusByFilesystemOutcome ==
  (hpc = "done" /\ ValidRequest) =>
    LET P == obs.primary
        F == obs.fallback
        ok200 == P.resolved = "some" /\ P.read = "ok"
        ok404 == P.resolved = "none" /\ F.resolved = "some" /\ F.read = "ok"
        r == TheResponse IN
    /\ Answered
    /\ r.status = "Ok" <=> ok200
    /\ r.status = "NotFound" <=> ok404
    /\ r.status = "ServerError" <=> ~ok200 /\ ~ok404
    /\ r.status = "Ok" =>
         /\ responses[1].bytebuffer = P.bytes
         /\ r.payload \in {P.bytes, Gzip(P.bytes)}
    /\ r.status = "NotFound" =>
         /\ responses[1].bytebuffer = F.bytes
         /\ F.bytes = FileBytes(N_404)
         /\ r.payload \in {F.bytes, Gzip(F.bytes)}
    /\ r.status = "ServerError" =>
         /\ r.payload = ServerErrorBody
         /\ r.headers["Content-Type"] = <<"text/plain">>
         /\ "Content-Encoding" \notin DOMAIN r.headers

\* C10 witness: the primary file resolved but could not be read, 404.html
\* exists, and the answer is 500.
C10_Witness ==
  /\ Answered
  /\ ValidRequest
  /\ obs.primary.resolved = "some"
  /\ obs.primary.read = "err"
  /\ obs.fallback = NoObs
  /\ Entry(fs, N_404).kind = "file"
  /\ TheResponse.status = "ServerError"

\* What a compressed and an uncompressed response look like: the payload is
\* the gzip stream of the bytes respond was given and both encoding headers
\* are set, or the payload is those bytes and neither header is set.
Compressed(i) ==
  LET r == responses[i].response IN
  /\ r.payload = Gzip(responses[i].bytebuffer)
  /\ "Content-Encoding" \in DOMAIN r.headers
  /\ r.headers["Content-Encoding"] = <<"gzip">>
  /\ "Vary" \in DOMAIN r.headers
  /\ r.headers["Vary"] = <<"Accept-Encoding">>
Uncompressed(i) ==
  LET r == responses[i].response IN
  /\ r.payload = responses[i].bytebuffer
  /\ "Content-Encoding" \notin DOMAIN r.headers
  /\ "Vary" \notin DOMAIN r.headers

\* The request has a header named exactly Accept-Encoding, and in its value
\* "gzip" stands at the start or right after a comma, white space aside.
TokenStartsWithGzip(v) ==
  \E i \in 1..Len(v) :
    /\ v[i] = "gzip"
    /\ \E k \in 0..(i - 1) :
         /\ k = 0 \/ v[k] = ","
         /\ \A m \in (k + 1)..(i - 1) : v[m] \in Whitespace
Negotiated ==
  /\ AcceptEncoding \in DOMAIN request.headers
  /\ TokenStartsWithGzip(request.headers[AcceptEncoding])
ContentAnswer ==
  Answered /\ TheResponse.status \in {"Ok", "NotFound"}

\* C11 as stated: the payload of a 200 or 404 is gzip-compressed, with
\* Content-Encoding: gzip and Vary: Accept-Encoding, if and only if the
\* served file's content policy marks it compressible and the request
\* negotiated gzip under the exact header name Accept-Encoding.
C11_CompressedIffNegotiated ==
  ContentAnswer =>
    IF content_headers(content.path).compress /\ Negotiated
      THEN Compressed(1)
      ELSE Uncompressed(1)

\* C11 amended: ... if and only if the policy marks the file compressible,
\* the request negotiated gzip, and compress_gzip did not fail; a file
\* without a known extension and a request with a differently-cased header
\* name are never answered compressed.
C11_CompressedIffNegotiatedAndGzipOk ==
  ContentAnswer =>
    /\ IF /\ content_headers(content.path).compress
          /\ Negotiated
          /\ ~responses[1].compress_err
         THEN Compressed(1)
         ELSE Uncompressed(1)
    /\ ~HasExtension(content.path) => Uncompressed(1)
    /\ AcceptEncoding \notin DOMAIN request.headers => Uncompressed(1)

\* C11 witness: a 200 for an html file, negotiated by the token "gzip;q=1"
\* after a comma, is sent compressed.
C11_Witness ==
  /\ ContentAnswer
  /\ TheResponse.status = "Ok"
  /\ Extension(content.path) = <<"html">>
  /\ Negotiated
  /\ request.headers[AcceptEncoding] = <<"br", ",", "gzip", ";q=1">>
  /\ Compressed(1)

RequiredHeaders == {"Connection", "Content-Length", "Date", "Permissions-Policy"}
ContentHeaderNames == {"Content-Type", "Cache-Control"}

\* C12: every terminal branch of the handler (400, 505, 405, 200, 404, 500)
\* sends one response with a status line and the headers Connection: close,
\* Content-Length, Date and Permissions-Policy; 400, 505 and 405 carry
\* neither Content-Type nor Cache-Control, 200, 404 and 500 carry both.
C12_HeadersOfEveryBranch ==
  hpc = "done" =>
    /\ Answered
    /\ Len(wire) = 1
    /\ LET r == TheResponse
           H == DOMAIN r.headers IN
       /\ r.status \in {"BadRequest", "UnsupportedVersion", "NotAllowed",
                         "Ok", "NotFound", "ServerError"}
       /\ RequiredHeaders \subseteq H
       /\ r.headers["Connection"] = <<"close">>
       /\ r.status \in {"BadRequest", "UnsupportedVersion", "NotAllowed"}
            => H \cap ContentHeaderNames = {}
       /\ r.status \in {"Ok", "NotFound", "ServerError"}
            => ContentHeaderNames \subseteq H
       /\ wire[1].head # <<>> =>
            /\ Len(wire[1].head) = 1
            /\ wire[1].head[1].status_line[1] = "HTTP/1.1"
            /\ wire[1].head[1].status_line[3] = StatusText(r.status)
            /\ wire[1].head[1].headers = r.headers

\* C12 witness: a 500 whose head reached the wire, with Content-Type and
\* Cache-Control: max-age=0 beside the four default headers.
C12_Witness ==
  /\ Answered
  /\ TheResponse.status = "ServerError"
  /\ wire[1].head # <<>>
  /\ DOMAIN wire[1].head[1].headers = RequiredHeaders \cup ContentHeaderNames
  /\ TheResponse.headers["Cache-Control"] = <<"max-age=", "0">>

\* C14: when compress_gzip fails the response is still sent, with the
\* payload and every header as they were before the call: the payload is
\* the uncompressed bytes, Content-Length is their length, neither
\* Content-Encoding nor Vary is set, and the handler ends normally.
C14_FailedCompressionLeavesResponse ==
  \A i \in 1..Len(responses) :
    responses[i].compress_err =>
      LET r == responses[i].response IN
      /\ hpc = "done"
      /\ Len(responses) = 1
      /\ Len(wire) = 1
      /\ wire[1].head \in {<<>>, <<HeadOf(r)>>}
      /\ r.status \in {"Ok", "NotFound"}
      /\ r.payload = responses[i].bytebuffer
      /\ r.payload = obs[stage].bytes
      /\ DOMAIN r.headers = RequiredHeaders \cup ContentHeaderNames
      /\ r.headers["Content-Length"] = Decimal(Len(responses[i].bytebuffer))

\* C14 witness: a negotiated 404 whose compression failed went out in full,
\* with the bytes of 404.html as they are on disk.
C14_Witness ==
  /\ Answered
  /\ responses[1].compress_err
  /\ Negotiated
  /\ TheResponse.status = "NotFound"
  /\ wire[1].body = FileBytes(N_404)

\* The three rules as C15 states them, each returning the path it tested.
FirstApplicableRule(f, candidate) ==
  IF IsFile(f, candidate) THEN SomePath(candidate)
  ELSE IF ~HasExtension(candidate) /\ IsFile(f, candidate \o HtmlExt)
    THEN SomePath(candidate \o HtmlExt)
  ELSE IF IsDir(f, candidate) /\ IsFile(f, JoinIndexHtml(candidate))
    THEN SomePath(JoinIndexHtml(candidate))
  ELSE NoPath

\* C15: path resolution gives, for every filesystem state and path, the
\* result of the first applicable of its three rules: the candidate when it
\* is a regular file; else candidate + ".html" when the candidate has no
\* extension and that is a regular file; else candidate/index.html when the
\* candidate is a directory and that is a regular file; else None.
C15_ResolveByFirstApplicableRule ==
  [][(hpc = "resolve" /\ fs' = fs) =>
       LET expected ==
             FirstApplicableRule(fs, CombinedPath(ServePath, ContentPath)) IN
       IF expected.some
         THEN hpc' = "check" /\ content' = expected
         ELSE hpc' # "check" /\ content' = NoPath]_vars

\* The number a client reads from a string of decimal digits, -1 when the
\* string is not one.
DigitValue(c) ==
  CASE c = "0" -> 0 [] c = "1" -> 1 [] c = "2" -> 2 [] c = "3" -> 3
    [] c = "4" -> 4 [] c = "5" -> 5 [] c = "6" -> 6 [] c = "7" -> 7
    [] c = "8" -> 8 [] c = "9" -> 9 [] OTHER -> -1
RECURSIVE DecimalValue(_)
DecimalValue(d) ==
  IF d = <<>> THEN -1
  ELSE IF DigitValue(Last(d)) < 0 THEN -1
  ELSE IF Len(d) = 1 THEN DigitValue(d[1])
  ELSE IF DecimalValue(Front(d)) < 0 THEN -1
  ELSE 10 * DecimalValue(Front(d)) + DigitValue(Last(d))

\* C20: in every response handed to send, Content-Length is the length of
\* the payload the response holds: the length of the bytes given to respond
\* when compress_gzip was not called or failed, the length of their gzip
\* stream after a successful compress_gzip.
C20_ContentLengthIsPayloadLength ==
  \A i \in 1..Len(responses) :
    LET r == responses[i].response
        n == DecimalValue(r.headers["Content-Length"]) IN
    /\ n = Len(r.payload)
    /\ IF "Content-Encoding" \in DOMAIN r.headers
         THEN /\ ~responses[i].compress_err
              /\ r.payload = Gzip(responses[i].bytebuffer)
              /\ n = Len(Gzip(responses[i].bytebuffer))
         ELSE /\ r.payload = responses[i].bytebuffer
              /\ n = Len(responses[i].bytebuffer)

\* C20 witness: the three bytes of a.html went out as a gzip stream of nine
\* bytes under Content-Length: 9.
C20_Witness ==
  /\ Answered
  /\ responses[1].bytebuffer = FileBytes(N_a_html)
  /\ Len(responses[1].bytebuffer) = 3
  /\ "Content-Encoding" \in DOMAIN TheResponse.headers
  /\ TheResponse.headers["Content-Length"] = <<"9">>
  /\ Len(TheResponse.payload) = 9

\* C21: the handler validates in the order read, parse, protocol, method,
\* resolve and stops at the first failure: a request with an unsupported
\* protocol and an unsupported method is answered 505, a request answered
\* 400, 505 or 405 never reaches the resolver or the filesystem (404.html
\* included), and exactly one response is sent per connection.
C21_FirstFailureDecides ==
  /\ Len(responses) = (IF hpc = "done" THEN 1 ELSE 0)
  /\ Len(wire) = Len(responses)
  /\ hpc = "done" =>
       LET st == TheResponse.status IN
       /\ st = "BadRequest" <=> ~request.some
       /\ st = "UnsupportedVersion" <=>
            request.some /\ request.protocol # HTTP11
       /\ st = "NotAllowed" <=>
            /\ request.some
            /\ request.protocol = HTTP11
            /\ request.method \notin {GET, HEAD}
       /\ st \in {"Ok", "NotFound", "ServerError"} <=> ValidRequest
       /\ st \in {"BadRequest", "UnsupportedVersion", "NotAllowed"} =>
            /\ obs = [primary |-> NoObs, fallback |-> NoObs]
            /\ opened = <<>>
            /\ content = NoPath
            /\ stage = "primary"
  /\ hpc \in {"read", "parse", "protocol", "method"} =>
       /\ obs = [primary |-> NoObs, fallback |-> NoObs]
       /\ opened = <<>>
       /\ content = NoPath

\* C21 witness: a request with protocol HTTP/1.0 and method "get" was
\* answered 505 and nothing was resolved or opened.
C21_Witness ==
  /\ Answered
  /\ request.some
  /\ request.protocol = HTTP10
  /\ request.method = <<"get">>
  /\ TheResponse.status = "UnsupportedVersion"
  /\ obs = [primary |-> NoObs, fallback |-> NoObs]
  /\ opened = <<>>

(***************************************************************************)
(* Claims about Request::parse (checked under ParseSpec).                  *)
(***************************************************************************)
\* The positions of the spaces of s, and s cut at its first two spaces.
Spaces(s) == {i \in 1..Len(s) : s[i] = SP}
NthSpace(s, n) ==
  CHOOSE i \in Spaces(s) : Cardinality({j \in Spaces(s) : j < i}) = n - 1
AfterSecondSpace(s) == SubSeq(s, NthSpace(s, 2) + 1, Len(s))
HasCrlf(t) == \E i \in 1..(Len(t) - 1) : t[i] = CR /\ t[i + 1] = LF
FirstCrlf(t) ==
  CHOOSE i \in 1..(Len(t) - 1) :
    /\ t[i] = CR /\ t[i + 1] = LF
    /\ \A j \in 1..(i - 1) : ~(t[j] = CR /\ t[j + 1] = LF)
\* parse has been applied to the bytes read.
Parsed == buffer # <<>> /\ hpc \notin {"read", "parse"}

\* C13: Request::parse is total: on every buffer it returns a Request with
\* method, path, protocol and headers, or None, and never panics; it returns
\* None exactly when the buffer has fewer than three space-separated parts
\* or the part after the second space contains no CRLF.
C13_ParseTotal ==
  Parsed =>
    /\ hpc # "panicked"
    /\ ~request.some <=>
         \/ Cardinality(Spaces(buffer)) < 2
         \/ ~HasCrlf(AfterSecondSpace(buffer))
    /\ ~request.some => request = NoRequest
    /\ request.some =>
         LET rest == AfterSecondSpace(buffer) IN
         /\ request.method = SubSeq(buffer, 1, NthSpace(buffer, 1) - 1)
         /\ request.path = SubSeq(buffer, NthSpace(buffer, 1) + 1,
                                  NthSpace(buffer, 2) - 1)
         /\ request.protocol = SubSeq(rest, 1, FirstCrlf(rest) - 1)
         /\ \A k \in DOMAIN request.headers :
              /\ \A i \in 1..Len(k) : k[i] # ":"
              /\ k = <<>> \/ (Head(k) # SP /\ Last(k) # SP)

\* C13 witness: a zero-padded buffer with replaced bytes, empty path and
\* empty protocol parses to a Request.
C13_Witness ==
  /\ Parsed
  /\ buffer = <<REPL, SP, SP, CR, LF, NUL>>
  /\ request.some
  /\ request.method = <<REPL>>
  /\ request.path = <<>>
  /\ request.protocol = <<>>

=============================================================================
